---- MODULE Spec2Model ----
(***************************************************************************)
(* The dark-mode toggle of mkfold.github.io, in its two variants:          *)
(*   src/unnamed/part_000  (marker class "dark",   labels "light"/"dark")  *)
(*   src/docs/dark.js      (marker class "darken", labels sun/moon glyphs) *)
(* The state is what the handlers read and write: the localStorage key     *)
(* darkmode_enabled, the class list of document.body, the elements the     *)
(* selectors of _darken can match, and the elements with id dark-button.   *)
(* Each handler (window.onload -> dark_init, onclick -> toggle_dark) runs  *)
(* to its end, or to its exception, in one step: the page is single        *)
(* threaded.                                                               *)
(***************************************************************************)
EXTENDS Integers, Sequences, FiniteSets, TLC

\* Bounds of the model.
MaxInitSurfaces == 1    \* elements matched by a selector in the host page
MaxSurfaces == 2        \* the same, counting elements added after the load

----------------------------------------------------------------------------
\* Configuration of the two variants.

Variants == {"part_000", "dark.js"}

UNDARK_TEXT == "light"
DARK_TEXT == "dark"
SUN_SYMBOL == "U+2600"      \* the sun glyph
MOON_SYMBOL == "U+1F315"    \* the full-moon glyph

\* The class name _darken toggles.
Marker(v) == IF v = "part_000" THEN "dark" ELSE "darken"

\* Label shown while dark mode is on (the action is "go light") and off.
LightLabel(v) == IF v = "part_000" THEN UNDARK_TEXT ELSE SUN_SYMBOL
DarkLabel(v) == IF v = "part_000" THEN DARK_TEXT ELSE MOON_SYMBOL

----------------------------------------------------------------------------
\* localStorage.getItem("darkmode_enabled"): null when the key is absent,
\* else the stored string. "x" stands for any string other than "y", "n", "".

Absent == "<null>"
StoredValues == {Absent, "y", "n", "", "x"}

\* OrN with the wrong default: getItem(..) || "y".
OrN_default_y(item) == IF item \in {Absent, ""} THEN "y" ELSE item

\* getItem(..) || "n": null and the empty string are falsy.
OrN(item) == IF item \in {Absent, ""} THEN "n" ELSE item

_get_dark_state(ls) == OrN(ls)

----------------------------------------------------------------------------
\* The document.

\* classList.toggle(name)
ClassListToggle(cl, name) == IF name \in cl THEN cl \ {name} ELSE cl \cup {name}

\* Elements of the host page that some selector of _darken matches: a card,
\* a code element, a pre element, and elements matched by two selectors.
ElementKinds ==
    { [tag |-> "div",  classList |-> {"card"}],
      [tag |-> "code", classList |-> {}],
      [tag |-> "pre",  classList |-> {}],
      [tag |-> "pre",  classList |-> {"card"}] }

HostElement(k) == [tag |-> k.tag, classList |-> k.classList, atLoad |-> TRUE]
LateElement(k) == [tag |-> k.tag, classList |-> k.classList, atLoad |-> FALSE]

SeqsUpTo(S, n) == UNION { [1..m -> S] : m \in 0..n }

\* getElementsByClassName / getElementsByTagName: live collections, computed
\* from the document each time they are called.
getElementsByClassName(es, c) == { i \in DOMAIN es : c \in es[i].classList }
getElementsByTagName(es, t) == { i \in DOMAIN es : es[i].tag = t }

\* for (x of coll) { x.classList.toggle(name); }
ToggleEach(es, coll, name) ==
    [i \in DOMAIN es |->
        IF i \in coll
        THEN [es[i] EXCEPT !.classList = ClassListToggle(@, name)]
        ELSE es[i]]

\* Elements with id dark-button, in document order. A host page may bring
\* one of its own, as a child of body ahead of the header div or inside the
\* header div; it has no toggle_dark handler.
HostButton(parent) ==
    [created |-> FALSE, onclick |-> "none", textContent |-> "", parent |-> parent]

\* document.createElement(..); b.id = "dark-button"; b.onclick = toggle_dark
NewButton(parent) ==
    [created |-> TRUE, onclick |-> "toggle_dark", textContent |-> "", parent |-> parent]

\* The shapes of a freshly parsed page: no marker anywhere.
HostButtons(hdr) ==
    {<<>>, <<HostButton("body")>>} \cup (IF hdr THEN {<<HostButton("header")>>} ELSE {})

\* document.body.prepend(b): b becomes the first element of the document.
BodyPrepend(bs, b) == <<b>> \o bs

\* f.header.prepend(b): b becomes the first child of the header div, after
\* what precedes the header in the body.
HeaderPrepend(bs, b) ==
    SelectSeq(bs, LAMBDA x : x.parent = "body") \o <<b>>
        \o SelectSeq(bs, LAMBDA x : x.parent = "header")

----------------------------------------------------------------------------
\* What a handler reads and writes: w.ls is the value of darkmode_enabled,
\* w.body the class list of document.body, w.elems the elements a selector
\* can match, w.buttons the elements with id dark-button in document order,
\* w.threw whether the handler ended in an uncaught exception.

\* document.getElementById("dark-button"): the first such element, or null.
HasButton(w) == w.buttons # <<>>

\* ---- src/unnamed/part_000 ----

_set_button_text(w, enabled) ==
    LET c == IF enabled = "y" THEN UNDARK_TEXT ELSE DARK_TEXT
    IN  IF HasButton(w)
        THEN [w EXCEPT !.buttons[1].textContent = c]
        ELSE w

\* _darken with classList.add in place of classList.toggle.
_darken_add(w) ==
    [w EXCEPT !.body = @ \cup {"dark"},
              !.elems = [i \in DOMAIN @ |->
                            IF "card" \in @[i].classList
                            THEN [@[i] EXCEPT !.classList = @ \cup {"dark"}]
                            ELSE @[i]]]

\* _darken over the cards found when the page was loaded, not over a fresh
\* scan of the document.
_darken_atload(w) ==
    [w EXCEPT !.body = ClassListToggle(@, "dark"),
              !.elems = ToggleEach(@, { i \in getElementsByClassName(@, "card") :
                                          @[i].atLoad }, "dark")]

_darken(w) ==
    [w EXCEPT !.body = ClassListToggle(@, "dark"),
              !.elems = ToggleEach(@, getElementsByClassName(@, "card"), "dark")]

toggle_dark(w) ==
    LET e == IF _get_dark_state(w.ls) = "y" THEN "n" ELSE "y"
        w1 == [w EXCEPT !.ls = e]
    IN  _set_button_text(_darken(w1), e)

\* dark_init without the line  if (e == "y") _darken();
dark_init_nodarken(w, hdr) ==
    LET e == _get_dark_state(w.ls)
        b == NewButton("header")
        w2 == IF hdr THEN [w EXCEPT !.buttons = HeaderPrepend(@, b)] ELSE w
    IN  _set_button_text(w2, e)

\* hdr: the body holds a div that the collection f names "header".
dark_init(w, hdr) ==
    LET e == _get_dark_state(w.ls)
        w1 == IF e = "y" THEN _darken(w) ELSE w
        b == NewButton("header")
        w2 == IF hdr THEN [w1 EXCEPT !.buttons = HeaderPrepend(@, b)] ELSE w1
    IN  _set_button_text(w2, e)

\* ---- src/docs/dark.js ----

_set_button_text_docs(w, enabled) ==
    LET c == IF enabled = "y" THEN SUN_SYMBOL ELSE MOON_SYMBOL
    IN  IF HasButton(w)
        THEN [w EXCEPT !.buttons[1].textContent = c]
        ELSE w

_darken_docs(w) ==
    LET e1 == ToggleEach(w.elems, getElementsByClassName(w.elems, "card"), "darken")
        e2 == ToggleEach(e1, getElementsByTagName(e1, "code"), "darken")
        e3 == ToggleEach(e2, getElementsByTagName(e2, "pre"), "darken")
    IN  [w EXCEPT !.body = ClassListToggle(@, "darken"), !.elems = e3]

\* toggle_dark with the test e == "n" ? "y" : "n" in place of e == "y" ? "n" : "y".
toggle_dark_docs_eq_n(w) ==
    LET e0 == OrN(w.ls)
        e == IF e0 = "n" THEN "y" ELSE "n"
        w1 == [w EXCEPT !.ls = e]
    IN  [_darken_docs(w1) EXCEPT !.threw = TRUE]

\* Line 22 passes the identifier "enabled", which nothing declares: evaluating
\* it raises a ReferenceError, so the handler ends there, after the write and
\* after _darken, and _set_button_text is never entered.
toggle_dark_docs(w) ==
    LET e0 == OrN(w.ls)
        e == IF e0 = "y" THEN "n" ELSE "y"
        w1 == [w EXCEPT !.ls = e]
    IN  [_darken_docs(w1) EXCEPT !.threw = TRUE]

\* dark_init with the test e != "n" in place of e == "y".
dark_init_docs_neq(w) ==
    LET b == NewButton("body")
        w1 == [w EXCEPT !.buttons = BodyPrepend(@, b)]
        e == OrN(w1.ls)
        w2 == IF e # "n" THEN _darken_docs(w1) ELSE w1
    IN  _set_button_text_docs(w2, e)

\* dark_init that stores the value it settled on: setItem("darkmode_enabled", e).
dark_init_docs_persist(w) ==
    LET b == NewButton("body")
        w1 == [w EXCEPT !.buttons = BodyPrepend(@, b)]
        e == OrN(w1.ls)
        w2 == IF e = "y" THEN _darken_docs(w1) ELSE w1
    IN  _set_button_text_docs([w2 EXCEPT !.ls = e], e)

dark_init_docs(w) ==
    LET b == NewButton("body")
        w1 == [w EXCEPT !.buttons = BodyPrepend(@, b)]
        e == OrN(w1.ls)
        w2 == IF e = "y" THEN _darken_docs(w1) ELSE w1
    IN  _set_button_text_docs(w2, e)

----------------------------------------------------------------------------
VARIABLES
    variant,        \* which of the two scripts the page embeds
    header,         \* the body holds a div named "header"
    localStorage,   \* value of the key darkmode_enabled
    body,           \* document.body.classList
    elems,          \* elements the selectors of _darken can match
    buttons,        \* elements with id dark-button, in document order
    threw,          \* the last handler ended in an uncaught exception
    loaded,         \* window.onload has fired for this document
    lastOp,         \* the last step taken
    lastRead,       \* what getItem returned to the last handler
    written,        \* what the last setItem wrote, "<none>" before any
    before,         \* the state at the start of the current run of clicks
    oddRun,         \* the current run of clicks has odd length
    tab2            \* a second tab of the same origin: its document

vars == <<variant, header, localStorage, body, elems, buttons, threw, loaded,
          lastOp, lastRead, written, before, oddRun, tab2>>

World ==
    [ls |-> localStorage, body |-> body, elems |-> elems, buttons |-> buttons,
     threw |-> threw]

NoWorld == [ls |-> Absent, body |-> {}, elems |-> <<>>, buttons |-> <<>>, threw |-> FALSE]

\* The second tab shows a page of the site with a header div, no themed
\* surface and no dark-button of its own; it shares localStorage.
Tab2Closed == [loaded |-> FALSE, body |-> {}, buttons |-> <<>>, threw |-> FALSE]

Tab2World ==
    [ls |-> localStorage, body |-> tab2.body, elems |-> <<>>,
     buttons |-> tab2.buttons, threw |-> FALSE]

\* The handler effects written back to the second tab and the shared store.
Tab2Becomes(w) ==
    /\ localStorage' = w.ls
    /\ tab2' = [loaded |-> TRUE, body |-> w.body, buttons |-> w.buttons,
                threw |-> w.threw]

\* The handler effects written back to the page.
Becomes(w) ==
    /\ localStorage' = w.ls
    /\ body' = w.body
    /\ elems' = w.elems
    /\ buttons' = w.buttons
    /\ threw' = w.threw

\* A freshly parsed host page: no marker on any element, onload not yet fired.
FreshDocument ==
    /\ header' \in BOOLEAN
    /\ body' = {}
    /\ elems' \in SeqsUpTo({HostElement(k) : k \in ElementKinds}, MaxInitSurfaces)
    /\ buttons' \in HostButtons(header')
    /\ threw' = FALSE
    /\ loaded' = FALSE

Init ==
    /\ variant \in Variants
    /\ localStorage \in StoredValues
    /\ header \in BOOLEAN
    /\ body = {}
    /\ elems \in SeqsUpTo({HostElement(k) : k \in ElementKinds}, MaxInitSurfaces)
    /\ buttons \in HostButtons(header)
    /\ threw = FALSE
    /\ loaded = FALSE
    /\ lastOp = "none"
    /\ lastRead = Absent
    /\ written = "<none>"
    /\ before = NoWorld
    /\ oddRun = FALSE
    /\ tab2 = Tab2Closed

\* window.onload = () => { dark_init(); }
OnLoad ==
    /\ ~loaded
    /\ Becomes(IF variant = "part_000"
               THEN dark_init([World EXCEPT !.threw = FALSE], header)
               ELSE dark_init_docs([World EXCEPT !.threw = FALSE]))
    /\ loaded' = TRUE
    /\ lastOp' = "dark_init"
    /\ lastRead' = localStorage
    /\ before' = NoWorld
    /\ oddRun' = FALSE
    /\ UNCHANGED <<variant, header, written, tab2>>

\* The user can click an element of the document whose onclick is toggle_dark;
\* nothing else calls toggle_dark.
Clickable == \E i \in DOMAIN buttons : buttons[i].onclick = "toggle_dark"

\* b.onclick = toggle_dark
Click ==
    /\ Clickable
    /\ Becomes(IF variant = "part_000"
               THEN toggle_dark([World EXCEPT !.threw = FALSE])
               ELSE toggle_dark_docs([World EXCEPT !.threw = FALSE]))
    /\ lastOp' = "toggle_dark"
    /\ lastRead' = localStorage
    /\ written' = localStorage'
    /\ before' = IF lastOp = "toggle_dark" THEN before ELSE World
    /\ oddRun' = IF lastOp = "toggle_dark" THEN ~oddRun ELSE TRUE
    /\ UNCHANGED <<variant, header, loaded, tab2>>

\* The user reloads, or follows a link to another page of the site: a new
\* document, the same localStorage.
Reload ==
    /\ loaded
    /\ FreshDocument
    /\ lastOp' = "reload"
    /\ before' = NoWorld
    /\ oddRun' = FALSE
    /\ UNCHANGED <<variant, localStorage, lastRead, written, tab2>>

\* The host page adds an element to the loaded document.
AppendElement ==
    /\ loaded
    /\ Len(elems) < MaxSurfaces
    /\ \E k \in ElementKinds : elems' = Append(elems, LateElement(k))
    /\ lastOp' = "append"
    /\ before' = NoWorld
    /\ oddRun' = FALSE
    /\ UNCHANGED <<variant, header, localStorage, body, buttons, threw, loaded,
                   lastRead, written, tab2>>

Next == OnLoad \/ Click \/ Reload \/ AppendElement

Spec == Init /\ [][Next]_vars

\* ---- two tabs ----

\* window.onload in the second tab.
OnLoad2 ==
    /\ ~tab2.loaded
    /\ Tab2Becomes(IF variant = "part_000"
                   THEN dark_init(Tab2World, TRUE)
                   ELSE dark_init_docs(Tab2World))
    /\ lastOp' = "dark_init_2"
    /\ lastRead' = localStorage
    /\ before' = NoWorld
    /\ oddRun' = FALSE
    /\ UNCHANGED <<variant, header, body, elems, buttons, threw, loaded, written>>

Clickable2 == \E i \in DOMAIN tab2.buttons : tab2.buttons[i].onclick = "toggle_dark"

\* A click on the control of the second tab.
Click2 ==
    /\ Clickable2
    /\ Tab2Becomes(IF variant = "part_000"
                   THEN toggle_dark(Tab2World)
                   ELSE toggle_dark_docs(Tab2World))
    /\ lastOp' = "toggle_dark_2"
    /\ lastRead' = localStorage
    /\ written' = localStorage'
    /\ before' = NoWorld
    /\ oddRun' = FALSE
    /\ UNCHANGED <<variant, header, body, elems, buttons, threw, loaded>>

NextTabs == Next \/ OnLoad2 \/ Click2

\* Two page instances on the one localStorage, their handlers interleaved in
\* any order (each handler still runs to its end).
SpecTabs == Init /\ [][NextTabs]_vars

----------------------------------------------------------------------------
\* Vocabulary of the properties.

\* The element carries the dark marker of the variant in use.
Dark(cl) == Marker(variant) \in cl
NoMarker(cl) == cl \cap {"dark", "darken"} = {}

\* Themed surfaces: class card, and code and pre elements in dark.js.
IsThemed(el) ==
    \/ "card" \in el.classList
    \/ variant = "dark.js" /\ el.tag \in {"code", "pre"}

\* How many of the variant's selectors match the element.
Matches(el) ==
    (IF "card" \in el.classList THEN 1 ELSE 0)
        + (IF variant = "dark.js" /\ el.tag \in {"code", "pre"} THEN 1 ELSE 0)

\* The text of the element getElementById("dark-button") returns.
Label(w) == IF HasButton(w) THEN w.buttons[1].textContent ELSE "<no control>"

\* The label announcing the state one more toggle would reach.
TargetLabel(ls) == IF ls = "y" THEN LightLabel(variant) ELSE DarkLabel(variant)

\* The persisted value read with absent = "n".
ReadAbsentN(ls) == IF ls = Absent THEN "n" ELSE ls

Markers(w) == [i \in DOMAIN w.elems |-> Dark(w.elems[i].classList)]

\* What the round trip compares: the persisted value, the markers, the label.
Observed(w) ==
    <<ReadAbsentN(w.ls), Dark(w.body), Markers(w), Label(w)>>

\* The same with the persisted value read as a preference: dark iff "y".
ObservedPreference(w) ==
    <<w.ls = "y", Dark(w.body), Markers(w), Label(w)>>

EvenRun == lastOp = "toggle_dark" /\ ~oddRun

----------------------------------------------------------------------------
\* C1 (as stated): after an even number of consecutive toggle() calls the
\* persisted value (absent read as "n"), the marker on body, the marker on
\* every surface and the label are what they were before the calls.
C1_RoundTripRaw == EvenRun => Observed(World) = Observed(before)

\* C1 (amended): after an even number of consecutive toggle() calls the
\* preference the persisted value denotes (dark iff "y"), the markers on body
\* and on every surface and the label are what they were before; the
\* persisted string itself is restored when it was absent, "y" or "n".
C1_RoundTrip ==
    EvenRun =>
        /\ ObservedPreference(World) = ObservedPreference(before)
        /\ before.ls \in {Absent, "y", "n"} => Observed(World) = Observed(before)

C1_Witness ==
    /\ EvenRun
    /\ before.ls = "x"
    /\ localStorage = "n"
    /\ elems # <<>>
    /\ HasButton(World)

\* C2: after a toggle() wrote X, a reload followed by initialize() reads X
\* back: body and every themed surface carry the marker iff X is "y", and the
\* label is the one of the opposite state.
C2_Persistence ==
    (lastOp = "dark_init" /\ written # "<none>") =>
        /\ lastRead = written
        /\ Dark(body) <=> written = "y"
        /\ \A i \in DOMAIN elems :
              IsThemed(elems[i]) => (Dark(elems[i].classList) <=> written = "y")
        /\ HasButton(World) => Label(World) = TargetLabel(written)

\* C3: once initialized, the text of the element with id dark-button is the
\* label of the state one more toggle would reach.
C3_Label ==
    (loaded /\ HasButton(World)) => Label(World) = TargetLabel(localStorage)

\* C4: every themed surface present when initialize() ran carries the marker
\* iff document.body does, after initialize() and after every toggle().
C4_SurfaceSync ==
    loaded =>
        \A i \in DOMAIN elems :
            (elems[i].atLoad /\ IsThemed(elems[i])) =>
                (Dark(elems[i].classList) <=> Dark(body))

\* C5: initialize() on a page load that finds the key absent leaves body and
\* every surface without the marker and the key absent.
C5_DefaultState ==
    (lastOp = "dark_init" /\ lastRead = Absent) =>
        /\ NoMarker(body)
        /\ \A i \in DOMAIN elems : NoMarker(elems[i].classList)
        /\ localStorage = Absent
        /\ written = "<none>"

C5_Witness ==
    /\ lastOp = "dark_init"
    /\ lastRead = Absent
    /\ localStorage = Absent
    /\ NoMarker(body)
    /\ elems # <<>>

\* C6: no handler ends in an exception.
C6_NoError == ~threw

\* C7: after initialize() the document holds an element with id dark-button
\* whose click handler is toggle and whose text is one of the two labels,
\* inside the header container when there is one and at the start of body
\* otherwise.
C7_ControlProduced ==
    loaded =>
        \E i \in DOMAIN buttons :
            /\ buttons[i].onclick = "toggle_dark"
            /\ buttons[i].textContent \in {LightLabel(variant), DarkLabel(variant)}
            /\ buttons[i].parent = IF header THEN "header" ELSE "body"
            /\ ~header => i = 1

\* C8: the document never holds more than one element with id dark-button.
C8_SingleControl == Len(buttons) <= 1

\* C9: a persisted value other than "y" and "n" (the empty string included)
\* is handled as "n": initialize() applies no marker, shows the dark-action
\* label on the control and raises nothing, and the first toggle() from there
\* writes "y" and puts the marker on body.
C9_InvalidValue ==
    /\ (lastOp = "dark_init" /\ lastRead \in {"", "x"}) =>
          /\ NoMarker(body)
          /\ \A i \in DOMAIN elems : NoMarker(elems[i].classList)
          /\ HasButton(World) => Label(World) = DarkLabel(variant)
          /\ ~threw
          /\ localStorage = lastRead
    /\ (lastOp = "toggle_dark" /\ lastRead \in {"", "x"}) =>
          /\ localStorage = "y"
          /\ written = "y"
          /\ Dark(body)

C9_Witness ==
    /\ lastOp = "toggle_dark"
    /\ lastRead = ""
    /\ localStorage = "y"
    /\ Dark(body)

\* A step of toggle_dark.
ToggleStep == lastOp' = "toggle_dark"

\* C10 (as stated): no toggle() adds or removes the marker on an element
\* that was added after initialize().
C10_NoRetroactive ==
    [][ToggleStep =>
        \A i \in DOMAIN elems :
            ~elems[i].atLoad => elems'[i].classList = elems[i].classList]_vars

\* C10 (amended): _darken scans the document on every call, so each toggle()
\* flips the marker on an element added after initialize() exactly when one
\* selector of the variant matches it, and changes nothing else of it.
C10_Rescanned ==
    [][ToggleStep =>
        \A i \in DOMAIN elems :
            ~elems[i].atLoad =>
                /\ (Dark(elems'[i].classList) # Dark(elems[i].classList))
                      <=> (Matches(elems[i]) = 1)
                /\ elems'[i].classList \ {Marker(variant)}
                      = elems[i].classList \ {Marker(variant)}
                /\ elems'[i].tag = elems[i].tag]_vars

C10_Witness ==
    /\ lastOp = "toggle_dark"
    /\ \E i \in DOMAIN elems : ~elems[i].atLoad /\ Dark(elems[i].classList)

\* C11: on a single page whose document started without markers, once
\* initialize() has run, document.body carries the marker iff the persisted
\* value is "y"; after a toggle() the marker on body is the one of the value
\* that toggle() wrote.
C11_VisualMatchesPersisted ==
    /\ loaded => (Dark(body) <=> localStorage = "y")
    /\ lastOp = "toggle_dark" =>
          /\ written = localStorage
          /\ Dark(body) <=> written = "y"

C11_Witness ==
    /\ lastOp = "toggle_dark"
    /\ lastRead = "x"
    /\ written = "y"
    /\ Dark(body)

\* A step of dark_init.
InitStep == ~loaded /\ loaded'

\* C13: initialize() leaves darkmode_enabled as it found it; only toggle()
\* changes it, and writes "y" if the value it read was not "y" and "n" if it
\* was; no step removes the key.
C13_PersistenceFrame ==
    [][/\ InitStep => localStorage' = localStorage
       /\ localStorage' # localStorage => ToggleStep
       /\ ToggleStep =>
             /\ localStorage' \in {"y", "n"}
             /\ localStorage' = "y" <=> localStorage # "y"
       /\ localStorage' = Absent => localStorage = Absent]_vars

C13_Witness ==
    /\ lastOp = "toggle_dark"
    /\ lastRead = Absent
    /\ localStorage = "y"
    /\ loaded

\* C14: every toggle() starts in a document whose initialize() has run to
\* its end: the preference was read and applied (a stored "y" has its marker
\* on body), the control is in the document and its label is set.
C14_InitBeforeToggle ==
    [][ToggleStep =>
        /\ loaded
        /\ HasButton(World)
        /\ Label(World) \in {LightLabel(variant), DarkLabel(variant)}
        /\ localStorage = "y" => Dark(body)]_vars

C14_Witness ==
    /\ lastOp = "toggle_dark"
    /\ lastRead = "y"
    /\ localStorage = "n"
    /\ ~Dark(body)
    /\ loaded

\* C12: with two tabs on the one store, right after a toggle() in a tab the
\* body of that tab carries the marker iff the value the toggle() wrote is "y".
C12_CrossTab ==
    /\ lastOp = "toggle_dark" => (Dark(body) <=> written = "y")
    /\ lastOp = "toggle_dark_2" => (Dark(tab2.body) <=> written = "y")

====
